---- MODULE Spec2Model ----
(***************************************************************************)
(* Model of the notebook plt_sns_ex_complete.py: the loaded table          *)
(* titanic_df and the code cells that read it, run top to bottom.          *)
(*                                                                         *)
(* Numbers.  Cell values are integers.  A numeric cell is <<v>> or, when   *)
(* the observation is missing (NaN), the empty tuple <<>>.  A missing      *)
(* string cell is the string "NaN".                                        *)
(* Bin edges are rationals with denominator 2*k (k the number of bins):    *)
(* an edge e is stored as the integer e * 2k.  Quartiles and whisker ends  *)
(* have denominator 4 and are stored times 4.  A mean is kept as the pair  *)
(* sum, count.                                                             *)
(***************************************************************************)
EXTENDS Integers, Sequences, FiniteSets

VARIABLES
    pc,          \* the next code cell to run ("done" after the last); the
                 \* cell that raised, once err is set
    err,         \* the exception that ended the run, "none" if none
    titanic_df,  \* the loaded DataFrame (line 41)
    nbins,       \* the bins= argument of lines 59 and 74 (30 in the notebook)
    counts,      \* np.histogram's counts (line 59)
    bins,        \* np.histogram's bin edges, times 2*nbins (line 59)
    bars,        \* the bar heights plt.hist returns (line 60)
    histBars,    \* sns.histplot's bars (line 74)
    boxes,       \* sns.boxplot's boxes, one record per drawn class (line 144)
    countBars,   \* sns.countplot's bars (line 186)
    facets,      \* g, the FacetGrid (line 201), with the histograms g.map
                 \* has drawn in its facets (line 202)
    pairData     \* the DataFrame handed to sns.pairplot (line 214)

vars == <<pc, err, titanic_df, nbins, counts, bins, bars, histBars, boxes,
          countBars, facets, pairData>>

(* ------------------------------ bounds -------------------------------- *)

MaxRows == 4
MaxBins == 3

(* --------------------------- the data set ----------------------------- *)

NotebookBins == 30
DefaultBins == 10

Missing == <<>>
NaNStr == "NaN"

IsMissing(c) == c = Missing

Columns == <<"survived", "pclass", "sex", "age", "fare", "class">>

ClassCategories == <<"First", "Second", "Third">>

FareVals == {0, 5, 10, 20}
AgeVals == {10, 20, 30}
SexVals == {"male", "female"}

NumCells(S) == {<<v>> : v \in S} \cup {Missing}

Range(s) == {s[i] : i \in 1..Len(s)}

PclassOf(c) == CHOOSE i \in 1..Len(ClassCategories) : ClassCategories[i] = c

\* sns.load_dataset('titanic'): a DataFrame of n rows over the columns the
\* notebook reads.
DataFrame(n, survived, sex, age, fare, class) ==
    [columns |-> Columns,
     nrows   |-> n,
     data    |-> [survived |-> survived,
                  pclass   |-> [i \in 1..n |-> PclassOf(class[i])],
                  sex      |-> sex,
                  age      |-> age,
                  fare     |-> fare,
                  class    |-> class]]

Filled(n, v) == [i \in 1..n |-> v]

(* --------------------------- sequences -------------------------------- *)

RECURSIVE SumTo(_, _)
SumTo(s, i) == IF i = 0 THEN 0 ELSE SumTo(s, i - 1) + s[i]

SumSeq(s) == SumTo(s, Len(s))

MinOf(S) == CHOOSE x \in S : \A y \in S : x <= y
MaxOf(S) == CHOOSE x \in S : \A y \in S : x >= y

\* Variant: missing values filled with 0 instead of dropped.
ValuesFillZero(col) ==
    [i \in 1..Len(col) |-> IF col[i] = <<>> THEN 0 ELSE col[i][1]]

IsPresent(c) == ~IsMissing(c)

\* Series.dropna(), as plain values
Values(col) == [i \in 1..Len(SelectSeq(col, IsPresent)) |->
                    SelectSeq(col, IsPresent)[i][1]]

HasNaN(col) == \E i \in 1..Len(col) : IsMissing(col[i])

(* --------------------------- np.histogram ----------------------------- *)

\* numpy _get_outer_edges, times 2: (0, 1) for no data, min and max
\* otherwise, widened by 0.5 on each side when they are equal.
OuterEdges2(a) ==
    IF Len(a) = 0 THEN <<0, 2>>
    ELSE LET lo == MinOf(Range(a))
             hi == MaxOf(Range(a))
         IN IF lo = hi THEN <<2 * lo - 1, 2 * hi + 1>>
            ELSE <<2 * lo, 2 * hi>>

\* Variant: the edges start one step late.
LinspaceShifted(first2, last2, k) ==
    [i \in 1..(k + 1) |-> first2 * k + i * (last2 - first2)]

\* np.linspace(first, last, k + 1), times 2k
Linspace(first2, last2, k) ==
    [i \in 1..(k + 1) |-> first2 * k + (i - 1) * (last2 - first2)]

\* Variant: the value on the last edge is not moved into the last bin.
BinIndexNoClamp(v, first2, last2, k) ==
    ((2 * v - first2) * k) \div (last2 - first2)

\* Variant: bins closed on the right, so a value on an interior edge goes
\* to the bin below it.
BinIndexRightClosed(v, first2, last2, k) ==
    LET num == (2 * v - first2) * k
        den == last2 - first2
        c == ((num + den - 1) \div den) - 1
    IN IF c < 0 THEN 0 ELSE c

\* The 0-based bin of value v among k equal bins over [first, last]:
\* the integer part of (v - first) * k / (last - first), and the value on
\* the last edge goes to the last bin.
BinIndex(v, first2, last2, k) ==
    LET f == ((2 * v - first2) * k) \div (last2 - first2)
    IN IF f = k THEN k - 1 ELSE f

\* np.histogram(a, bins=k) for data a without NaN
Histogram(a, k) ==
    LET oe == OuterEdges2(a)
    IN [counts |-> [i \in 1..k |->
                      Cardinality({r \in 1..Len(a) :
                          BinIndex(a[r], oe[1], oe[2], k) = i - 1})],
        bins   |-> Linspace(oe[1], oe[2], k)]

\* np.histogram(x, bins=edges, weights=w) with an explicit edge array:
\* cumulative weights by searchsorted, 'left' at every edge but the last
\* and 'right' at the last, then their differences.
WeightBelow(x, w, e) ==
    SumSeq([j \in 1..Len(x) |-> IF x[j] < e THEN w[j] ELSE 0])

WeightUpTo(x, w, e) ==
    SumSeq([j \in 1..Len(x) |-> IF x[j] <= e THEN w[j] ELSE 0])

CumWeight(x, w, edges, i) ==
    IF i = Len(edges) THEN WeightUpTo(x, w, edges[i])
    ELSE WeightBelow(x, w, edges[i])

HistogramEdges(x, edges, w) ==
    [i \in 1..(Len(edges) - 1) |->
        CumWeight(x, w, edges, i + 1) - CumWeight(x, w, edges, i)]

\* Variant: bins[1:], the first edge dropped instead of the last.
DropFirst(s) == SubSeq(s, 2, Len(s))

\* bins[:-1]
DropLast(s) == SubSeq(s, 1, Len(s) - 1)

(* ----------------------- grouping and ordering ------------------------ *)

\* pd.Series.unique(): the distinct values in order of first appearance
RECURSIVE Unique(_)
Unique(s) ==
    IF s = <<>> THEN <<>>
    ELSE LET u == Unique(SubSeq(s, 1, Len(s) - 1))
             x == s[Len(s)]
         IN IF x \in Range(u) THEN u ELSE Append(u, x)

NotNull(x) == x # NaNStr

\* Variant: the values are not made distinct.
CategoricalOrderNoUnique(col, categories) ==
    IF categories # <<>> THEN SelectSeq(categories, NotNull)
    ELSE SelectSeq(col, NotNull)

\* Variant: the declared categories are ignored.
CategoricalOrderFirstSeen(col, categories) ==
    SelectSeq(Unique(col), NotNull)

\* seaborn categorical_order: the declared categories of a categorical
\* column, else the distinct values as they first appear; nulls removed.
CategoricalOrder(col, categories) ==
    IF categories # <<>> THEN SelectSeq(categories, NotNull)
    ELSE SelectSeq(Unique(col), NotNull)

\* the row numbers whose key equals name, in row order
RowsOf(col, name) ==
    LET Match(i) == col[i] = name
    IN SelectSeq([i \in 1..Len(col) |-> i], Match)

Take(col, rows) == [j \in 1..Len(rows) |-> col[rows[j]]]

(* ------------------------- box plot statistics ------------------------ *)

RECURSIVE Insert(_, _)
Insert(x, s) ==
    IF s = <<>> THEN <<x>>
    ELSE IF x <= s[1] THEN <<x>> \o s
    ELSE <<s[1]>> \o Insert(x, Tail(s))

RECURSIVE Sort(_)
Sort(s) == IF s = <<>> THEN <<>> ELSE Insert(s[1], Sort(Tail(s)))

\* Variant: the data are not sorted first.
PercentileUnsorted(x, q) ==
    LET n == Len(x)
        f == ((n - 1) * q) \div 4
        r == ((n - 1) * q) % 4
        lower == x[f + 1]
        upper == x[IF f + 2 <= n THEN f + 2 ELSE n]
    IN 4 * lower + r * (upper - lower)

\* np.percentile(x, 25 * q), times 4: linear interpolation between the
\* order statistics around position (n - 1) * q / 4 of the sorted data.
Percentile4(x, q) ==
    LET s == Sort(x)
        n == Len(s)
        f == ((n - 1) * q) \div 4
        r == ((n - 1) * q) % 4
        lower == s[f + 1]
        upper == s[IF f + 2 <= n THEN f + 2 ELSE n]
    IN 4 * lower + r * (upper - lower)

\* matplotlib.cbook.boxplot_stats(x, whis=1.5) for non-empty data x
BoxplotStats(x) ==
    LET q1 == Percentile4(x, 1)
        med == Percentile4(x, 2)
        q3 == Percentile4(x, 3)
        iqr == q3 - q1
        wisklo == {v \in Range(x) : 8 * v >= 2 * q1 - 3 * iqr}
        wiskhi == {v \in Range(x) : 8 * v <= 2 * q3 + 3 * iqr}
        whislo == IF wisklo = {} \/ 4 * MinOf(wisklo) > q1 THEN q1
                  ELSE 4 * MinOf(wisklo)
        whishi == IF wiskhi = {} \/ 4 * MaxOf(wiskhi) < q3 THEN q3
                  ELSE 4 * MaxOf(wiskhi)
        Low(v) == 4 * v < whislo
        High(v) == 4 * v > whishi
    IN [count  |-> Len(x),
        sum    |-> SumSeq(x),
        q1     |-> q1,
        med    |-> med,
        q3     |-> q3,
        whislo |-> whislo,
        whishi |-> whishi,
        fliers |-> SelectSeq(x, Low) \o SelectSeq(x, High)]

\* the lowest and the highest mark of a drawn box, times 4
BoxMin4(b) == MinOf({b.whislo} \cup {4 * v : v \in Range(b.fliers)})
BoxMax4(b) == MaxOf({b.whishi} \cup {4 * v : v \in Range(b.fliers)})

\* sns.boxplot(x=key, y=val): rows with a missing value are dropped, the
\* rest grouped by key in categorical order; an empty group draws no box.
BoxGroups(df, key, val, categories) ==
    LET order == CategoricalOrder(df.data[key], categories)
        Data(name) == Values(Take(df.data[val], RowsOf(df.data[key], name)))
        Drawn(name) == Len(Data(name)) > 0
        drawn == SelectSeq(order, Drawn)
    IN [g \in 1..Len(drawn) |->
          [key |-> drawn[g], stats |-> BoxplotStats(Data(drawn[g]))]]

\* sns.countplot(x=key): one bar per category, as high as its row count
CountGroups(df, key, categories) ==
    LET order == CategoricalOrder(df.data[key], categories)
    IN [g \in 1..Len(order) |->
          [key |-> order[g], rows |-> RowsOf(df.data[key], order[g]),
           height |-> Len(RowsOf(df.data[key], order[g]))]]

\* g = sns.FacetGrid(data=df, col=key): one facet per category with the
\* rows whose key equals it; nothing is drawn yet.
FacetGrid(df, key, categories) ==
    LET order == CategoricalOrder(df.data[key], categories)
    IN [f \in 1..Len(order) |->
          [key  |-> order[f],
           rows |-> RowsOf(df.data[key], order[f]),
           hist |-> <<>>]]

\* A grid without any category has zero columns: FacetGrid raises
\* ValueError and g is not bound.
GridWithoutColumns(df, key, categories) ==
    CategoricalOrder(df.data[key], categories) = <<>>

\* the values plt.hist can bin in a facet: those that are not NaN
FacetData(df, val, facet) == Values(Take(df.data[val], facet.rows))

\* the first facet none of whose values is a number, where plt.hist finds
\* no range and np.histogram raises ValueError; one past the last facet
\* if there is none
FirstFacetWithoutData(grid, df, val) ==
    LET bad == {f \in 1..Len(grid) : Len(FacetData(df, val, grid[f])) = 0}
    IN IF bad = {} THEN Len(grid) + 1 ELSE MinOf(bad)

\* g.map(plt.hist, val): the facets are drawn in order, each with the
\* histogram of its values that are not NaN; the facets from the one that
\* raises on stay undrawn.
FacetMap(grid, df, val) ==
    [f \in 1..Len(grid) |->
        IF f < FirstFacetWithoutData(grid, df, val)
        THEN [grid[f] EXCEPT
                !.hist = Histogram(FacetData(df, val, grid[f]),
                                   DefaultBins).counts]
        ELSE grid[f]]

\* g.map raises
MapRaises(grid, df, val) == FirstFacetWithoutData(grid, df, val) <= Len(grid)

(* ----------------------------- selection ------------------------------ *)

\* Variant: rows with a missing value in a selected column are dropped.
selectDropna(df, names) ==
    LET Complete(i) ==
            \A c \in Range(names) \cap {"age", "fare"} : df.data[c][i] # <<>>
        keep == SelectSeq([i \in 1..df.nrows |-> i], Complete)
    IN [columns |-> names,
        nrows   |-> Len(keep),
        data    |-> [c \in Range(names) |->
                       [j \in 1..Len(keep) |-> df.data[c][keep[j]]]]]

\* df[[names]]: the named columns in the order given, every row kept
select(df, names) ==
    [columns |-> names,
     nrows   |-> df.nrows,
     data    |-> [c \in Range(names) |-> df.data[c]]]

PairColumns == <<"age", "pclass", "survived", "fare">>

(* ------------------------------ cells --------------------------------- *)

Unset == <<>>

\* the code cells in the order the notebook runs them
Cells == <<"histogram", "plt_hist", "histplot", "scatter", "boxplot", "swarm",
           "countplot", "facetgrid", "pairplot", "done">>

Pos(c) == CHOOSE i \in 1..Len(Cells) : Cells[i] = c

\* cell c has run to its end
After(c) == Pos(pc) > Pos(c)

InitWith(df, k) ==
    /\ pc = "histogram"
    /\ err = "none"
    /\ titanic_df = df
    /\ nbins = k
    /\ counts = Unset
    /\ bins = Unset
    /\ bars = Unset
    /\ histBars = Unset
    /\ boxes = Unset
    /\ countBars = Unset
    /\ facets = Unset
    /\ pairData = Unset

\* The fare column varies, and the number of bins over the small numbers
\* and the notebook's own.
Init ==
    \E n \in 1..MaxRows :
      \E fare \in [1..n -> NumCells(FareVals)] :
        \E k \in (1..MaxBins) \cup {NotebookBins} :
          InitWith(DataFrame(n, Filled(n, 0), Filled(n, "male"),
                             Filled(n, <<20>>), fare, Filled(n, "Third")), k)

\* The age column varies, and the class column over two of the classes;
\* the histograms have MaxBins bins.
InitClass ==
    \E n \in 1..MaxRows :
      \E age \in [1..n -> NumCells(AgeVals)] :
        \E class \in [1..n -> {"First", "Third"}] :
          InitWith(DataFrame(n, Filled(n, 0), Filled(n, "male"),
                             age, Filled(n, <<5>>), class), MaxBins)

\* The sex and class columns vary; the histograms have MaxBins bins.
InitOrder ==
    \E n \in 1..MaxRows :
      \E sex \in [1..n -> SexVals \cup {NaNStr}] :
        \E class \in [1..n -> Range(ClassCategories)] :
          InitWith(DataFrame(n, Filled(n, 0), sex, Filled(n, <<20>>),
                             Filled(n, <<5>>), class), MaxBins)

\* counts, bins = np.histogram(titanic_df['fare'], bins=30)
\* A NaN in the data makes the autodetected range non-finite: ValueError.
HistogramCell ==
    /\ pc = "histogram"
    /\ err = "none"
    /\ IF HasNaN(titanic_df.data["fare"])
       THEN /\ err' = "ValueError"
            /\ UNCHANGED <<pc, counts, bins>>
       ELSE LET h == Histogram(Values(titanic_df.data["fare"]), nbins)
            IN /\ counts' = h.counts
               /\ bins' = h.bins
               /\ pc' = "plt_hist"
               /\ UNCHANGED err
    /\ UNCHANGED <<titanic_df, nbins, bars, histBars, boxes, countBars,
                   facets, pairData>>

\* plt.hist(bins[:-1], bins, weights=counts)
PltHistCell ==
    /\ pc = "plt_hist"
    /\ bars' = HistogramEdges(DropLast(bins), bins, counts)
    /\ pc' = "histplot"
    /\ UNCHANGED <<err, titanic_df, nbins, counts, bins, histBars, boxes,
                   countBars, facets, pairData>>

\* sns.histplot(titanic_df['fare'], bins=30, kde=False, color='red'):
\* missing values are dropped, then the same equal-width bins.
HistPlotCell ==
    /\ pc = "histplot"
    /\ LET x == Values(titanic_df.data["fare"])
       IN histBars' = IF Len(x) = 0 THEN <<>> ELSE Histogram(x, nbins).counts
    /\ pc' = "scatter"
    /\ UNCHANGED <<err, titanic_df, nbins, counts, bins, bars, boxes,
                   countBars, facets, pairData>>

\* plt.scatter, sns.scatterplot, plt.hexbin, sns.jointplot and the two
\* plt.savefig calls: drawing only, nothing is assigned.
ScatterCells ==
    /\ pc = "scatter"
    /\ pc' = "boxplot"
    /\ UNCHANGED <<err, titanic_df, nbins, counts, bins, bars, histBars,
                   boxes, countBars, facets, pairData>>

\* sns.boxplot(x='class', y='age', hue='class', data=titanic_df, ...)
BoxPlotCell ==
    /\ pc = "boxplot"
    /\ boxes' = BoxGroups(titanic_df, "class", "age", ClassCategories)
    /\ pc' = "swarm"
    /\ UNCHANGED <<err, titanic_df, nbins, counts, bins, bars, histBars,
                   countBars, facets, pairData>>

\* sns.swarmplot and sns.violinplot: drawing only
SwarmViolinCells ==
    /\ pc = "swarm"
    /\ pc' = "countplot"
    /\ UNCHANGED <<err, titanic_df, nbins, counts, bins, bars, histBars,
                   boxes, countBars, facets, pairData>>

\* sns.countplot(x='sex', data=titanic_df); sex is a plain string column
CountPlotCell ==
    /\ pc = "countplot"
    /\ countBars' = CountGroups(titanic_df, "sex", <<>>)
    /\ pc' = "facetgrid"
    /\ UNCHANGED <<err, titanic_df, nbins, counts, bins, bars, histBars,
                   boxes, facets, pairData>>

\* g = sns.FacetGrid(data=titanic_df, col='sex'); g.map(plt.hist, 'age')
\* When the grid cannot be made nothing is bound; when g.map raises, g is
\* already bound and holds what was drawn before the exception.
FacetGridCell ==
    /\ pc = "facetgrid"
    /\ err = "none"
    /\ IF GridWithoutColumns(titanic_df, "sex", <<>>)
       THEN /\ err' = "ValueError"
            /\ UNCHANGED <<pc, facets>>
       ELSE /\ facets' = FacetMap(FacetGrid(titanic_df, "sex", <<>>),
                                  titanic_df, "age")
            /\ IF MapRaises(FacetGrid(titanic_df, "sex", <<>>),
                            titanic_df, "age")
               THEN /\ err' = "ValueError"
                    /\ UNCHANGED pc
               ELSE /\ pc' = "pairplot"
                    /\ UNCHANGED err
    /\ UNCHANGED <<titanic_df, nbins, counts, bins, bars, histBars, boxes,
                   countBars, pairData>>

\* Variant: the selection is assigned back to titanic_df.
PairPlotCellInPlace ==
    /\ pc = "pairplot"
    /\ pairData' = select(titanic_df, PairColumns)
    /\ titanic_df' = select(titanic_df, PairColumns)
    /\ pc' = "done"
    /\ UNCHANGED <<err, nbins, counts, bins, bars, histBars, boxes,
                   countBars, facets>>

\* sns.pairplot(data=titanic_df[['age','pclass','survived','fare']], ...)
PairPlotCell ==
    /\ pc = "pairplot"
    /\ pairData' = select(titanic_df, PairColumns)
    /\ pc' = "done"
    /\ UNCHANGED <<err, titanic_df, nbins, counts, bins, bars, histBars,
                   boxes, countBars, facets>>

Next ==
    \/ HistogramCell
    \/ PltHistCell
    \/ HistPlotCell
    \/ ScatterCells
    \/ BoxPlotCell
    \/ SwarmViolinCells
    \/ CountPlotCell
    \/ FacetGridCell
    \/ PairPlotCell

Spec == Init /\ [][Next]_vars

SpecClass == InitClass /\ [][Next]_vars

SpecOrder == InitOrder /\ [][Next]_vars

(* ------------------------------ claims -------------------------------- *)

Fare == titanic_df.data["fare"]
Age == titanic_df.data["age"]
Sex == titanic_df.data["sex"]
Class == titanic_df.data["class"]
NRows == titanic_df.nrows

FareMin == MinOf(Range(Values(Fare)))
FareMax == MaxOf(Range(Values(Fare)))

\* value v, times 2*nbins, lies in bin i of the edges in bins: half-open
\* [lower, upper) for every bin but the last, closed for the last
InBin(v, i) ==
    /\ bins[i] <= 2 * nbins * v
    /\ IF i = nbins THEN 2 * nbins * v <= bins[i + 1]
       ELSE 2 * nbins * v < bins[i + 1]

\* the 1-based bin np.histogram puts value v of the fare column in
BinOf(v) ==
    BinIndex(v, OuterEdges2(Values(Fare))[1], OuterEdges2(Values(Fare))[2],
             nbins) + 1

\* C2 as stated: whenever the column has a non-missing value, the histogram
\* returns counts and they sum to the number of non-missing values.
C2_Original ==
    (After("histogram") \/ err # "none") /\ Len(Values(Fare)) >= 1
        => /\ After("histogram")
           /\ SumSeq(counts) = Len(Values(Fare))

\* C2 amended: for a column without missing values the nbins counts of
\* np.histogram sum to the number of values, each value lying in exactly
\* one bin; with a missing value
\* np.histogram raises ValueError and returns no counts.
C2_CountsSum ==
    /\ After("histogram") =>
          /\ ~HasNaN(Fare)
          /\ Len(counts) = nbins
          /\ SumSeq(counts) = NRows
          /\ \A i \in 1..nbins : counts[i] >= 0
          /\ \A r \in 1..NRows :
               Cardinality({i \in 1..nbins : InBin(Fare[r][1], i)}) = 1
    /\ (pc = "histogram" /\ err # "none") =>
          /\ HasNaN(Fare)
          /\ err = "ValueError"
          /\ counts = Unset
    /\ (After("histogram") \/ err # "none") =>
          (HasNaN(Fare) <=> err = "ValueError")

C2_Witness ==
    /\ pc = "plt_hist"
    /\ NRows = 3
    /\ nbins = 2
    /\ \E i \in 1..nbins : counts[i] >= 2

\* C3 as stated: for a column with a non-missing value the histogram is
\* nbins equal-width bins spanning [min, max] of the non-missing values,
\* half-open except the closed last one.
C3_Original ==
    (After("histogram") \/ err # "none") /\ Len(Values(Fare)) >= 1
        => /\ After("histogram")
           /\ Len(bins) = nbins + 1
           /\ bins[1] = 2 * nbins * FareMin
           /\ bins[nbins + 1] = 2 * nbins * FareMax
           /\ \A i \in 1..nbins :
                counts[i] = Cardinality({r \in 1..Len(Values(Fare)) :
                                            InBin(Values(Fare)[r], i)})

\* C3 amended: for a column without missing values np.histogram returns
\* nbins equal-width bins, half-open except the closed last one, spanning
\* [min, max] when min < max and [min - 0.5, max + 0.5] when all values
\* are equal; values 0, 5, 10 in 2 bins give (0,5,1), (5,10,2).
C3_Bins ==
    After("histogram") =>
        /\ Len(bins) = nbins + 1
        /\ Len(counts) = nbins
        /\ IF FareMin < FareMax
           THEN /\ bins[1] = 2 * nbins * FareMin
                /\ bins[nbins + 1] = 2 * nbins * FareMax
                /\ \A i \in 1..nbins :
                     bins[i + 1] - bins[i] = 2 * (FareMax - FareMin)
           ELSE /\ bins[1] = nbins * (2 * FareMin - 1)
                /\ bins[nbins + 1] = nbins * (2 * FareMax + 1)
                /\ \A i \in 1..nbins : bins[i + 1] - bins[i] = 2
        /\ \A i \in 1..nbins :
             counts[i] = Cardinality({r \in 1..NRows : InBin(Fare[r][1], i)})
        /\ (Fare = <<<<0>>, <<5>>, <<10>>>> /\ nbins = 2) =>
               /\ bins = <<0, 20, 40>>
               /\ counts = <<1, 2>>

\* a value on an interior edge, and two distinct values
C3_Witness ==
    /\ After("histogram")
    /\ nbins = 3
    /\ FareMin < FareMax
    /\ \E r \in 1..NRows : 2 * nbins * Fare[r][1] = bins[2]
    /\ counts[2] >= 1

\* C4 as stated: on values 0, 5, 10 in 2 bins the value 5 falls in the
\* first bin and the value 10 in the last.
C4_Original ==
    (After("histogram") /\ nbins = 2 /\ NRows = 3
       /\ Range(Fare) = {<<0>>, <<5>>, <<10>>})
        => /\ BinOf(5) = 1
           /\ BinOf(10) = 2

\* C4 amended: on values 0, 5, 10 in 2 bins the value 5 is the lower bound
\* of the closed final bin and falls in it, together with 10; only 0 falls
\* in the first, half-open bin.
C4_Boundary ==
    (After("histogram") /\ nbins = 2 /\ NRows = 3
       /\ Range(Fare) = {<<0>>, <<5>>, <<10>>})
        => /\ BinOf(0) = 1
           /\ BinOf(5) = 2
           /\ BinOf(10) = 2
           /\ bins[2] = 2 * nbins * 5
           /\ \A i \in 1..nbins :
                counts[i] = Cardinality({v \in {0, 5, 10} : BinOf(v) = i})
           /\ counts[2] = 2

C4_Witness ==
    /\ After("plt_hist")
    /\ nbins = 2
    /\ Fare = <<<<10>>, <<0>>, <<5>>>>

\* C10: the bars plt.hist draws from the left edges weighted by the counts
\* are the counts of np.histogram, bin by bin.
C10_BarsAreCounts ==
    After("plt_hist") =>
        /\ Len(DropLast(bins)) = Len(counts)
        /\ Len(bars) = nbins
        /\ \A i \in 1..nbins : bars[i] = counts[i]

\* an empty bin in the middle and a non-empty last bin
C10_Witness ==
    /\ After("plt_hist")
    /\ nbins = 3
    /\ counts[2] = 0
    /\ counts[3] >= 1
    /\ bars[3] >= 1

\* the groups (bars or facets) row r belongs to
GroupsOfRow(groups, r) ==
    {g \in 1..Len(groups) : r \in Range(groups[g].rows)}

GroupSizes(groups) == [g \in 1..Len(groups) |-> Len(groups[g].rows)]

SexPresent == {r \in 1..NRows : Sex[r] # NaNStr}

\* C1 as stated: the groups over 'sex' partition all rows of the table and
\* the bar heights and the facet sizes sum to the row count.
C1_Original ==
    /\ After("countplot") =>
          /\ \A r \in 1..NRows : Cardinality(GroupsOfRow(countBars, r)) = 1
          /\ SumSeq([g \in 1..Len(countBars) |-> countBars[g].height]) = NRows
    /\ After("facetgrid") =>
          /\ \A r \in 1..NRows : Cardinality(GroupsOfRow(facets, r)) = 1
          /\ SumSeq(GroupSizes(facets)) = NRows

\* C1 amended: the groups over 'sex' partition the rows whose sex is not
\* missing: each such row is in exactly one group, a row with a missing
\* sex is in none, and the bar heights and the facet sizes sum to the
\* number of rows with a sex.
C1_Partition ==
    /\ After("countplot") =>
          /\ \A r \in 1..NRows :
               Cardinality(GroupsOfRow(countBars, r)) =
                   IF r \in SexPresent THEN 1 ELSE 0
          /\ \A g \in 1..Len(countBars) :
               /\ countBars[g].height = Cardinality(Range(countBars[g].rows))
               /\ \A r \in Range(countBars[g].rows) : Sex[r] = countBars[g].key
          /\ SumSeq([g \in 1..Len(countBars) |-> countBars[g].height])
                 = Cardinality(SexPresent)
    /\ After("facetgrid") =>
          /\ \A r \in 1..NRows :
               Cardinality(GroupsOfRow(facets, r)) =
                   IF r \in SexPresent THEN 1 ELSE 0
          /\ \A g \in 1..Len(facets) :
               /\ Len(facets[g].rows) = Cardinality(Range(facets[g].rows))
               /\ \A r \in Range(facets[g].rows) : Sex[r] = facets[g].key
          /\ SumSeq(GroupSizes(facets)) = Cardinality(SexPresent)

\* two groups and a row without a sex
C1_Witness ==
    /\ After("facetgrid")
    /\ Len(countBars) = 2
    /\ Len(facets) = 2
    /\ NRows = 3
    /\ Cardinality(SexPresent) = 2

Keys(groups) == [g \in 1..Len(groups) |-> groups[g].key]

\* C5 as stated: the boxes over 'class' come in the order in which each
\* class first appears in the rows.
C5_Original ==
    After("boxplot") => Keys(boxes) = Unique(Class)

\* the declared categories that occur in the column, in declared order
Occurring(col, categories) ==
    LET Occurs(c) == c \in Range(col)
    IN SelectSeq(categories, Occurs)

\* C5 amended: the groups of the categorical column 'class' come in the
\* declared category order First, Second, Third whatever the row order,
\* and those of the string column 'sex' in first-appearance order;
\* class = First, Third, First gives First, Third with sizes 2, 1.
C5_GroupOrder ==
    /\ After("boxplot") =>
          /\ Keys(boxes) = Occurring(Class, ClassCategories)
          /\ \A g \in 1..Len(boxes) :
               boxes[g].stats.count = Len(RowsOf(Class, boxes[g].key))
          /\ Class = <<"First", "Third", "First">> =>
               /\ Keys(boxes) = <<"First", "Third">>
               /\ boxes[1].stats.count = 2
               /\ boxes[2].stats.count = 1
    /\ After("countplot") =>
          /\ Keys(countBars) = SelectSeq(Unique(Sex), NotNull)
          /\ \A g, h \in 1..Len(countBars) :
               g < h => countBars[g].rows[1] < countBars[h].rows[1]

\* a class that appears first in the rows and is declared last
C5_Witness ==
    /\ After("countplot")
    /\ Class = <<"Third", "First", "Second">>
    /\ Sex = <<"female", "NaN", "male">>
    /\ Keys(boxes) = <<"First", "Second", "Third">>
    /\ Keys(countBars) = <<"female", "male">>

\* the column lists select is asked for: the columns of a subset, in
\* column order
ColumnLists ==
    {SelectSeq(Columns, LAMBDA c : c \in S) : S \in SUBSET Range(Columns)}

\* C6: the selection handed to pairplot has exactly the columns asked for,
\* every row of the table in the same order with the same cells, and
\* selecting the same columns again changes nothing; the same for every
\* column list.
C6_Select ==
    After("pairplot") =>
        /\ pairData.columns = PairColumns
        /\ DOMAIN pairData.data = Range(PairColumns)
        /\ pairData.nrows = NRows
        /\ \A c \in Range(PairColumns) :
             /\ Len(pairData.data[c]) = NRows
             /\ \A r \in 1..NRows :
                  pairData.data[c][r] = titanic_df.data[c][r]
        /\ select(pairData, PairColumns) = pairData
        /\ \A C \in ColumnLists :
             LET sel == select(titanic_df, C)
             IN /\ sel.columns = C
                /\ sel.nrows = NRows
                /\ \A c \in Range(C) : sel.data[c] = titanic_df.data[c]
                /\ select(sel, C) = sel

\* a table with a missing age goes through the selection
C6_Witness ==
    /\ After("pairplot")
    /\ NRows = 3
    /\ HasNaN(Age)
    /\ HasNaN(pairData.data["age"])

\* the ages that are not missing among the rows of class c
AgesOf(c) == Values(Take(Age, RowsOf(Class, c)))

BoxOf(c) == CHOOSE g \in 1..Len(boxes) : boxes[g].key = c

AllAgesMissing == \A r \in 1..NRows : IsMissing(Age[r])

\* C7 as stated: the summary is over the non-missing values, and it fails
\* with EmptyColumnError exactly when every value is missing.
C7_Original ==
    (pc = "swarm" \/ (pc = "boxplot" /\ err # "none")) =>
        (AllAgesMissing <=> err = "EmptyColumnError")

\* C7 amended: count, mean, min and max of a box are those of the
\* non-missing values of its group (10, 20, missing gives count 2, mean
\* 15, min 10, max 20); when every value is missing nothing fails: no box
\* is drawn and no error is raised.
C7_Describe ==
    After("boxplot") =>
        /\ pc = "swarm" => err = "none"
        /\ \A c \in Range(ClassCategories) :
             IF Len(AgesOf(c)) = 0
             THEN \A g \in 1..Len(boxes) : boxes[g].key # c
             ELSE /\ Cardinality({g \in 1..Len(boxes) : boxes[g].key = c}) = 1
                  /\ boxes[BoxOf(c)].stats.count = Len(AgesOf(c))
                  /\ boxes[BoxOf(c)].stats.sum = SumSeq(AgesOf(c))
                  /\ BoxMin4(boxes[BoxOf(c)].stats) = 4 * MinOf(Range(AgesOf(c)))
                  /\ BoxMax4(boxes[BoxOf(c)].stats) = 4 * MaxOf(Range(AgesOf(c)))
        /\ AllAgesMissing => boxes = <<>>
        /\ (Age = <<<<10>>, <<20>>, <<>>>> /\ Class = <<"First", "First", "First">>)
             => /\ Len(boxes) = 1
                /\ boxes[1].stats.count = 2
                /\ boxes[1].stats.sum = 15 * boxes[1].stats.count
                /\ BoxMin4(boxes[1].stats) = 4 * 10
                /\ BoxMax4(boxes[1].stats) = 4 * 20

C7_Witness ==
    /\ After("boxplot")
    /\ Age = <<<<10>>, <<20>>, <<>>>>
    /\ Class = <<"First", "First", "First">>
    /\ Len(boxes) = 1

\* C8: every box satisfies min <= Q1 <= median <= Q3 <= max, also a box
\* over a single value or over equal values.
C8_QuartileOrder ==
    After("boxplot") =>
        \A g \in 1..Len(boxes) :
            LET b == boxes[g].stats
            IN /\ BoxMin4(b) <= b.q1
               /\ b.q1 <= b.med
               /\ b.med <= b.q3
               /\ b.q3 <= BoxMax4(b)
               /\ b.count = 1 => b.q1 = b.q3

\* a box over three distinct values given out of order
C8_Witness ==
    /\ After("boxplot")
    /\ Len(boxes) = 1
    /\ boxes[1].stats.count = 3
    /\ boxes[1].stats.q1 < boxes[1].stats.med
    /\ boxes[1].stats.med < boxes[1].stats.q3
    /\ Age[1][1] > Age[2][1]

\* C9: no cell changes the loaded table, whether it runs to its end or
\* raises.
C9_TableUnchanged == [][titanic_df' = titanic_df]_vars

\* every cell has run on a table of several rows
C9_Witness ==
    /\ pc = "done"
    /\ NRows >= 2
    /\ pairData.nrows = NRows

====
